---- MODULE Spec2Model ----
(***************************************************************************)
(* Model of the RunLoop take-home workflow drivers:                        *)
(*   task1a_create_devbox.py      DevboxManager      (Provision)           *)
(*   task1b_devbox_operations.py  DevboxOperations   (Operate)             *)
(*   task1c_create_snapshot.py    SnapshotCreator    (Checkpoint)          *)
(*   task2_create_blueprint.py    BlueprintCreator   (Template+Verify)     *)
(*   task3_custom_scenario.py     ScenarioCreator    (Scenario Definition) *)
(* Each driver is a process that loads answers.json, issues remote calls   *)
(* through the SDK client and rewrites answers.json.  The remote service   *)
(* is a stub: every call either returns a response or raises.              *)
(***************************************************************************)
EXTENDS Naturals, Sequences, FiniteSets, TLC

(***************************************************************************)
(* Strings.  A string is a sequence of symbols; a symbol is either one of  *)
(* the two characters JSON escapes inside a string literal (the quote and  *)
(* the backslash) or a run of ordinary characters taken as a whole.        *)
(***************************************************************************)
Q  == "\""
BS == "\\"
NL == "\n"
SP == " "

Str(x) == <<x>>

\* Python's None, as returned by dict.get for an absent key.
NoneVal == <<"<None>">>

\* Python truthiness of a str-or-None value: `not v` is true for None and "".
Truthy(v) == v # NoneVal /\ v # <<>>

(***************************************************************************)
(* The in-memory dict: Python dicts keep insertion order, so a dict is a   *)
(* sequence of <<key, value>> pairs with pairwise distinct keys.           *)
(***************************************************************************)
DictKeys(d) == {d[i][1] : i \in 1..Len(d)}

DictHas(d, k) == k \in DictKeys(d)

\* d.get(k)
DictGet(d, k) ==
  IF DictHas(d, k)
  THEN d[CHOOSE i \in 1..Len(d) : d[i][1] = k][2]
  ELSE NoneVal

\* the element of a one-element set: The({body : x \in {e}}) is body with x
\* a local variable holding the value of e
The(S) == CHOOSE r \in S : TRUE

\* d[k] = v : overwrite in place, or append a new key
DictSet(d, k, v) ==
  The({IF DictHas(e, k)
       THEN [i \in 1..Len(e) |-> IF e[i][1] = k THEN <<k, v>> ELSE e[i]]
       ELSE Append(e, <<k, v>>) : e \in {d}})

\* Equality of two dicts as mappings (key order irrelevant).
DictEq(d, e) == {d[i] : i \in 1..Len(d)} = {e[i] : i \in 1..Len(e)}

(***************************************************************************)
(* json.dump(obj, f, indent=2) of a flat str -> str dict.                  *)
(***************************************************************************)
\* a string written between quotes as it is
EscapeStrNone(s) == s

RECURSIVE EscapeStr(_)
EscapeStr(s) ==
  IF s = <<>> THEN <<>>
  ELSE (IF Head(s) \in {Q, BS} THEN <<BS, Head(s)>> ELSE <<Head(s)>>)
       \o EscapeStr(Tail(s))

JsonString(s) == <<Q>> \o EscapeStr(s) \o <<Q>>

JsonMember(kv) == JsonString(kv[1]) \o <<":", SP>> \o JsonString(kv[2])

\* a dump that stops after the first member
JsonMembersFirst(d) == JsonMember(d[1])

RECURSIVE JsonMembers(_)
JsonMembers(d) ==
  IF Len(d) = 1 THEN JsonMember(d[1])
  ELSE JsonMember(Head(d)) \o <<",", NL, SP, SP>> \o JsonMembers(Tail(d))

json_dump(d) ==
  IF d = <<>> THEN <<"{", "}">>
  ELSE <<"{", NL, SP, SP>> \o JsonMembers(d) \o <<NL, "}">>

(***************************************************************************)
(* json.load(f): a parser of the text.  Every Parse* operator returns a    *)
(* record [ok, val, next]; ok = FALSE is json.JSONDecodeError.             *)
(***************************************************************************)
IsWs(c) == c \in {NL, SP}

RECURSIVE SkipWs(_, _)
SkipWs(t, i) == IF i <= Len(t) /\ IsWs(t[i]) THEN SkipWs(t, i + 1) ELSE i

ParseFail == [ok |-> FALSE, val |-> <<>>, next |-> 0]

\* the characters of a string literal after its opening quote
RECURSIVE ScanString(_, _, _)
ScanString(t, i, acc) ==
  IF i > Len(t) THEN ParseFail
  ELSE IF t[i] = Q THEN [ok |-> TRUE, val |-> acc, next |-> i + 1]
  ELSE IF t[i] = BS
       THEN IF i + 1 <= Len(t) /\ t[i + 1] \in {Q, BS}
            THEN The({ScanString(t, a[1], a[2]) :
                        a \in {<<i + 2, Append(acc, t[i + 1])>>}})
            ELSE ParseFail
  ELSE The({ScanString(t, a[1], a[2]) : a \in {<<i + 1, Append(acc, t[i])>>}})

ParseString(t, i) ==
  IF i <= Len(t) /\ t[i] = Q THEN ScanString(t, i + 1, <<>>) ELSE ParseFail

\* what follows a member: e is the position after its value, d the dict
\* with the member added
RECURSIVE ParseMembers(_, _, _)
ParseRest(t, e, d) ==
  IF e > Len(t) THEN ParseFail
  ELSE IF t[e] = "," THEN ParseMembers(t, e + 1, d)
  ELSE IF t[e] = "}" THEN [ok |-> TRUE, val |-> d, next |-> e + 1]
  ELSE ParseFail

\* the value of a member whose key is k, the colon expected at position c
ParseValue(t, c, k, acc) ==
  IF ~(c <= Len(t) /\ t[c] = ":") THEN ParseFail
  ELSE The({IF ~v.ok THEN ParseFail
            ELSE The({ParseRest(t, ed[1], ed[2]) :
                        ed \in {<<SkipWs(t, v.next), DictSet(acc, k, v.val)>>}}) :
              v \in {ParseString(t, SkipWs(t, c + 1))}})

\* members of an object from position i on; acc is the dict built so far
ParseMembers(t, i, acc) ==
  The({IF ~k.ok THEN ParseFail
       ELSE The({ParseValue(t, c, k.val, acc) : c \in {SkipWs(t, k.next)}}) :
         k \in {ParseString(t, SkipWs(t, i))}})

json_load(t) ==
  The({IF ~(b <= Len(t) /\ t[b] = "{") THEN ParseFail
       ELSE The({IF r.ok /\ SkipWs(t, r.next) > Len(t) THEN r ELSE ParseFail :
                   r \in {The({IF m <= Len(t) /\ t[m] = "}"
                                THEN [ok |-> TRUE, val |-> <<>>, next |-> m + 1]
                                ELSE ParseMembers(t, b + 1, <<>>) :
                                  m \in {SkipWs(t, b + 1)}})}}) :
         b \in {SkipWs(t, 1)}})


(***************************************************************************)
(* Keys of answers.json and the values the scripts compare against.        *)
(***************************************************************************)
KeyApi          == Str("api-key")
KeyDevboxName   == Str("devbox-name")
KeyDevboxId     == Str("devbox-id")
KeySnapshotId   == Str("snapshot-id")
KeyBlueprintName == Str("blueprint-name")
KeyBlueprintId  == Str("blueprint-id")
KeyBpDevboxName == Str("devbox-from-blueprint-name")
KeyBpDevboxId   == Str("devbox-from-blueprint-id")
KeyScenarioRunId == Str("ext-scenario-run-id")

\* self.devbox_name of DevboxManager
FixedName   == Str("asad.shahid@berkeley.edu")
\* the template value of devbox-id
Placeholder == Str("YOUR_DEVBOX_ID")

(***************************************************************************)
(* The remote service stub.  A call raises (ok = FALSE) or returns an      *)
(* object with an id and a name.                                           *)
(***************************************************************************)
Raised == [ok |-> FALSE, id |-> NoneVal, name |-> NoneVal]

Obj(id, name) == [ok |-> TRUE, id |-> Str(id), name |-> name]

\* what a create call of the stub may return
Responses == {Obj("d1", FixedName), Obj("d2", Str("x"))}
Outcomes  == {Raised} \cup Responses

\* the devboxes the list stub may hold: two of them carry the same name
Devboxes == Responses \cup {Obj("d2", FixedName)}

\* bound on the length of the list the devboxes.list() stub returns
MaxList == 2

Listings == UNION {[1..n -> Devboxes] : n \in 0..MaxList}

(***************************************************************************)
(* The local environment: answers.json and the ./resources directory.      *)
(***************************************************************************)
\* no answers.json on disk (a text no dump produces)
Missing == <<"<missing>">>
\* no ./resources directory
NoDir   == {"<nodir>"}

InitDocs ==
  { <<>>,
    << <<KeyApi, <<>> >> >>,
    << <<KeyApi, Str("k")>> >>,
    << <<KeyApi, Str("k")>>, <<KeyDevboxName, FixedName>> >>,
    << <<KeyApi, Str("k")>>, <<KeyDevboxName, FixedName>>,
       <<KeyDevboxId, Placeholder>> >>,
    << <<KeyApi, Str("k")>>, <<KeyDevboxName, FixedName>>,
       <<KeyDevboxId, Str("d1")>> >> }

\* the file is absent, empty (not JSON), or the dump of a document
InitFiles == {Missing, <<>>} \cup {json_dump(d) : d \in InitDocs}

InitResources == {NoDir, {"test.py"}, {"me.txt", "test.py"}}

Drivers == {"DevboxManager", "DevboxOperations", "SnapshotCreator",
            "BlueprintCreator", "ScenarioCreator"}

Procs == {1, 2}

\* bound on the number of driver runs started in one behaviour
MaxRuns == 2

\* bound on the number of times open(..., "w") raises in one behaviour of
\* the specification with write faults
MaxFaults == 1

VARIABLES
  file,       \* answers.json: Missing or its text
  resources,  \* ./resources: NoDir or the set of its file names
  proc,       \* per process: the driver object's fields and its position
  runs,       \* number of driver runs started so far
  faults,     \* number of times open(..., "w") may still raise
  acked,      \* history: the updates reported as done, applied in that order
  raced       \* history: a process wrote a document it read before another's write

vars == <<file, resources, proc, runs, faults, acked, raced>>

env == <<resources, runs, faults>>
hist == <<acked, raced>>

\* A process that is not running a driver.
IdleProc ==
  [ driver      |-> "none",
    pc          |-> "idle",
    config      |-> <<>>,       \* self.config
    error       |-> "",         \* what ended the run before its first step
    devboxes    |-> <<>>,       \* list_devboxes: devboxes
    api_key     |-> NoneVal,    \* self.api_key
    devbox_name |-> NoneVal,    \* self.devbox_name
    devbox_id   |-> NoneVal,    \* self.devbox_id
    devbox_info |-> Raised,     \* DevboxManager.run: devbox_info
    snapshot    |-> Raised,     \* SnapshotCreator.run_all_operations: snapshot
    blueprint   |-> Raised,     \* BlueprintCreator.run_all_operations: blueprint
    devbox      |-> Raised,     \* BlueprintCreator.run_all_operations: devbox
    scenario    |-> Raised,     \* ScenarioCreator.run_all_operations: scenario
    scenario_run |-> Raised,    \* ScenarioCreator.run_all_operations: scenario_run
    data        |-> <<>>,       \* the dict read by the update in progress
    pending     |-> <<>>,       \* updates of answers.json still to perform
    after       |-> "idle",     \* where the step in progress continues
    todo        |-> {},         \* files of ./resources not yet uploaded
    calls       |-> <<>>,       \* remote calls issued in this run
    writes      |-> 0,          \* completed rewrites of answers.json in this run
    persist_err |-> FALSE,      \* some update of answers.json raised in this run
    stale       |-> FALSE,      \* history: the file was rewritten since `data` was read
    ret         |-> "None",     \* what run_all_operations returned
    exit_code   |-> 0 ]         \* process exit status

\* A remote call: the SDK method, the id or name it targets, a further
\* argument (path, command) and its outcome.
Call(step, op, target, arg, out) ==
  [step |-> step, op |-> op, target |-> target, arg |-> arg, out |-> out]

\* the method `step` of the driver issues the SDK call `op`
Log(r, step, op, target, arg, out) ==
  [r EXCEPT !.calls = Append(@, Call(step, op, target, arg, out))]

\* the outcome of a call whose result carries no id (write_file, execute)
Plain(ok) == IF ok THEN [ok |-> TRUE, id |-> NoneVal, name |-> NoneVal] ELSE Raised

\* sys.exit(code), or an exception reaching main()'s handler
Exit(r, code) == [r EXCEPT !.pc = "exited", !.exit_code = code]

\* an error met while the driver object is constructed: the message is
\* printed and the process ends with sys.exit(1)
Fail(r, error) == Exit([r EXCEPT !.error = error], 1)

Set(p, r) == proc' = [proc EXCEPT ![p] = r]

\* open(..., "w") succeeds, or raises while the fault budget lasts
OpenOutcomes == {TRUE} \cup {ok \in {FALSE} : faults > 0}

\* History: the document d once the update key := value is done.
Applied(d, key, value) ==
  IF \E i \in 1..Len(d) : d[i][1] = key
  THEN [i \in 1..Len(d) |-> IF d[i][1] = key THEN <<key, value>> ELSE d[i]]
  ELSE d \o << <<key, value>> >>

\* a process holds a document it has read and not yet written back
MidUpdate(r) == r.pc \in {"update_open", "update_dump", "upd_open", "upd_dump"}

\* json.dump(data, f) by process p, which goes on as r.  History: the update
\* is recorded as done (a), p raced if the file was rewritten since p read
\* it, and every other process that holds a document read earlier is stale.
Dump(p, r, a) ==
  /\ file' = json_dump(proc[p].data)
  /\ acked' = a
  /\ raced' = (raced \/ proc[p].stale)
  /\ proc' = [q \in Procs |->
                IF q = p THEN [r EXCEPT !.stale = FALSE]
                ELSE IF MidUpdate(proc[q]) THEN [proc[q] EXCEPT !.stale = TRUE]
                ELSE proc[q]]


(***************************************************************************)
(* Starting a driver: `python taskN.py` with a fresh interpreter.          *)
(***************************************************************************)
Start(p, d) ==
  /\ proc[p].pc \in {"idle", "exited"}
  /\ runs < MaxRuns
  /\ runs' = runs + 1
  /\ Set(p, [IdleProc EXCEPT !.driver = d, !.pc = "init"])
  /\ UNCHANGED <<file, resources, faults, hist>>

(***************************************************************************)
(* DevboxManager (task1a_create_devbox.py)                                 *)
(***************************************************************************)
\* load_answers: the api key, or a raise (FileNotFoundError, ValueError,
\* Exception), all of which reach main()'s `except Exception`.
load_answers(f) ==
  IF f = Missing
  THEN [ok |-> FALSE, api_key |-> NoneVal, error |-> "FileNotFoundError"]
  ELSE LET a == json_load(f) IN
       IF ~a.ok
       THEN [ok |-> FALSE, api_key |-> NoneVal, error |-> "JSONDecodeError"]
       ELSE IF ~Truthy(DictGet(a.val, KeyApi))
            THEN [ok |-> FALSE, api_key |-> NoneVal, error |-> "ValueError"]
            ELSE [ok |-> TRUE, api_key |-> DictGet(a.val, KeyApi),
                  error |-> ""]

DevboxManager_init(p) ==
  /\ proc[p].driver = "DevboxManager" /\ proc[p].pc = "init"
  /\ LET l == load_answers(file) IN
     Set(p, IF l.ok /\ Truthy(l.api_key)
            THEN [proc[p] EXCEPT !.api_key = l.api_key,
                                 !.devbox_name = FixedName,
                                 !.pc = "create_devbox"]
            ELSE Fail(proc[p], l.error))
  /\ UNCHANGED <<file, env, hist>>

\* create_devbox, called from run(): the result is kept as devbox_info, a
\* raise is re-raised and run() ends the process with sys.exit(1).
create_devbox(p) ==
  /\ proc[p].driver = "DevboxManager" /\ proc[p].pc = "create_devbox"
  /\ \E out \in Outcomes :
       LET r == Log(proc[p], "create_devbox", "devboxes.create_and_await_running",
                    proc[p].devbox_name, "", out) IN
       Set(p, IF out.ok
              THEN [r EXCEPT !.devbox_info = out, !.pc = "update_read"]
              ELSE Exit(r, 1))
  /\ UNCHANGED <<file, env, hist>>

\* the id stored under both keys
DevboxInfoUpdateIdTwice(answers, api_key, devbox_info) ==
  DictSet(DictSet(DictSet(answers, KeyApi, api_key),
                  KeyDevboxName, devbox_info.id),
          KeyDevboxId, devbox_info.id)

\* the api key stored as it is printed, cut and followed by "..."
DevboxInfoUpdateKeyPrinted(answers, api_key, devbox_info) ==
  DictSet(DictSet(DictSet(answers, KeyApi, api_key \o Str("...")),
                  KeyDevboxName, devbox_info.name),
          KeyDevboxId, devbox_info.id)

\* the name asked for stored in place of the name returned
DevboxInfoUpdateNameAsked(answers, api_key, devbox_info) ==
  DictSet(DictSet(DictSet(answers, KeyApi, api_key),
                  KeyDevboxName, FixedName),
          KeyDevboxId, devbox_info.id)

\* the three assignments of update_answers_json
DevboxInfoUpdate(answers, api_key, devbox_info) ==
  DictSet(DictSet(DictSet(answers, KeyApi, api_key),
                  KeyDevboxName, devbox_info.name),
          KeyDevboxId, devbox_info.id)

\* update_answers_json, open(..., 'r') and json.load
update_answers_json_read(p) ==
  /\ proc[p].driver = "DevboxManager" /\ proc[p].pc = "update_read"
  /\ LET a == json_load(file) IN
     Set(p, IF file = Missing \/ ~a.ok
            THEN Exit([proc[p] EXCEPT !.persist_err = TRUE], 1)
            ELSE [proc[p] EXCEPT
                    !.data = DevboxInfoUpdate(a.val, proc[p].api_key,
                                             proc[p].devbox_info),
                    !.pc = "update_open"])
  /\ UNCHANGED <<file, env, hist>>

\* update_answers_json, open(..., 'w'): truncates the file, or raises OSError
update_answers_json_open(p) ==
  /\ proc[p].driver = "DevboxManager" /\ proc[p].pc = "update_open"
  /\ \E ok \in OpenOutcomes :
       IF ok
       THEN /\ file' = <<>>
            /\ Set(p, [proc[p] EXCEPT !.pc = "update_dump"])
            /\ UNCHANGED faults
       ELSE /\ file' = file
            /\ Set(p, Exit([proc[p] EXCEPT !.persist_err = TRUE], 1))
            /\ faults' = faults - 1
  /\ UNCHANGED <<resources, runs, hist>>

\* update_answers_json, json.dump; run() then returns and the process ends
update_answers_json_dump(p) ==
  /\ proc[p].driver = "DevboxManager" /\ proc[p].pc = "update_dump"
  /\ Dump(p, Exit([proc[p] EXCEPT !.writes = @ + 1], 0),
          Applied(Applied(Applied(acked, KeyApi, proc[p].api_key),
                          KeyDevboxName, proc[p].devbox_info.name),
                  KeyDevboxId, proc[p].devbox_info.id))
  /\ UNCHANGED env


(***************************************************************************)
(* What DevboxOperations, SnapshotCreator, BlueprintCreator and            *)
(* ScenarioCreator share (each file carries its own copy of this code).    *)
(***************************************************************************)
\* a missing answers.json read as the empty configuration
_load_config_or_empty(f) ==
  LET a == IF f = Missing THEN json_load(<<"{", "}">>) ELSE json_load(f) IN
  IF a.ok THEN [ok |-> TRUE, config |-> a.val, error |-> ""]
  ELSE [ok |-> FALSE, config |-> <<>>, error |-> "JSONDecodeError"]

\* _load_config: the parsed document; a missing or unparsable file ends the
\* process with sys.exit(1).
_load_config(f) ==
  IF f = Missing
  THEN [ok |-> FALSE, config |-> <<>>, error |-> "FileNotFoundError"]
  ELSE LET a == json_load(f) IN
       IF a.ok THEN [ok |-> TRUE, config |-> a.val, error |-> ""]
       ELSE [ok |-> FALSE, config |-> <<>>, error |-> "JSONDecodeError"]

\* __init__ after _load_config: the fields read with self.config.get
Loaded(r, config) ==
  [r EXCEPT !.config = config,
            !.api_key = DictGet(config, KeyApi),
            !.devbox_name = DictGet(config, KeyDevboxName),
            !.devbox_id = DictGet(config, KeyDevboxId)]

\* the check of the api key left out
ApiKeyUnchecked(config) == FALSE

\* `if not self.api_key: raise ValueError(...)`
ApiKeyAbsent(config) == ~Truthy(DictGet(config, KeyApi))

\* the placeholder taken for a devbox id
DevboxIdUnknownButPlaceholder(devbox_id) == ~Truthy(devbox_id)

\* `if not self.devbox_id or self.devbox_id == "YOUR_DEVBOX_ID"`
DevboxIdUnknown(devbox_id) == ~Truthy(devbox_id) \/ devbox_id = Placeholder

\* a failed run that blanks the blueprint id it recorded before it returns
ReturnAfterRollback(r, v) ==
  IF v = "False"
  THEN [r EXCEPT !.ret = v, !.pending = << <<KeyBlueprintId, <<>> >> >>,
                 !.after = "returned", !.pc = "upd_read"]
  ELSE [r EXCEPT !.pc = "returned", !.ret = v]

\* run_all_operations returns v to main()
Return(r, v) == [r EXCEPT !.pc = "returned", !.ret = v]

\* main(): `creator.run_all_operations()` has returned; the interpreter ends.
MainExitCode(ret) == 0

main_returns(p) ==
  /\ proc[p].pc = "returned"
  /\ Set(p, Exit(proc[p], MainExitCode(proc[p].ret)))
  /\ UNCHANGED <<file, env, hist>>

\* a failed step that does not stop run_all_operations
StepResultIgnored(r, ok, next) == [r EXCEPT !.pc = next]

\* run_all_operations: `if not self.step(): print(...); return False`
StepResult(r, ok, next) ==
  IF ok THEN [r EXCEPT !.pc = next] ELSE Return(r, "False")

\* a step that returns without recording what the call returned
PersistSkipped(r, updates, next) == [r EXCEPT !.pc = next]

\* after a successful call: the updates of answers.json the step performs
\* before it returns, then the next step of run_all_operations
Persist(r, updates, next) ==
  [r EXCEPT !.pending = updates, !.after = next, !.pc = "upd_read"]

\* a step whose update of answers.json is outside its try block
AfterCallAlwaysPersist(r, out, updates, next) == Persist(r, updates, next)

\* a step method: `try: <remote call>; self._update_answers_json(...);
\* return True` and `except Exception as e: print(...); return False`
AfterCall(r, out, updates, next) ==
  IF out.ok THEN Persist(r, updates, next) ELSE StepResult(r, FALSE, next)

\* a value already recorded under the key is kept (dict.setdefault)
SetItemDefault(data, key, value) ==
  IF DictHas(data, key) THEN data ELSE DictSet(data, key, value)

\* a fresh dict holding the new key only
SetItemFresh(data, key, value) == << <<key, value>> >>

\* _update_answers_json: `data[key] = value` on the dict just loaded
SetItem(data, key, value) == DictSet(data, key, value)

\* a step that returns after the first of its updates
NextUpdateOnce(r) == [r EXCEPT !.pending = <<>>, !.data = <<>>, !.pc = r.after]

\* _update_answers_json returns (normally, or after printing its error)
NextUpdate(r) ==
  LET rest == Tail(r.pending) IN
  [r EXCEPT !.pending = rest, !.data = <<>>,
            !.pc = IF rest = <<>> THEN r.after ELSE "upd_read"]

\* _update_answers_json: `except Exception as e: print(...)`
UpdateFailed(r) == NextUpdate([r EXCEPT !.persist_err = TRUE])

\* _update_answers_json, open(..., "r"), json.load and data[key] = value
_update_answers_json_read(p) ==
  /\ proc[p].pc = "upd_read"
  /\ LET a == json_load(file)
         u == Head(proc[p].pending) IN
     Set(p, IF file = Missing \/ ~a.ok
            THEN UpdateFailed(proc[p])
            ELSE [proc[p] EXCEPT !.data = SetItem(a.val, u[1], u[2]),
                                 !.pc = "upd_open"])
  /\ UNCHANGED <<file, env, hist>>

\* _update_answers_json, open(..., "w"): truncates the file, or raises OSError
_update_answers_json_open(p) ==
  /\ proc[p].pc = "upd_open"
  /\ \E ok \in OpenOutcomes :
       IF ok
       THEN /\ file' = <<>>
            /\ Set(p, [proc[p] EXCEPT !.pc = "upd_dump"])
            /\ UNCHANGED faults
       ELSE /\ file' = file
            /\ Set(p, UpdateFailed(proc[p]))
            /\ faults' = faults - 1
  /\ UNCHANGED <<resources, runs, hist>>

\* _update_answers_json, json.dump(data, f, indent=2)
_update_answers_json_dump(p) ==
  /\ proc[p].pc = "upd_dump"
  /\ LET u == Head(proc[p].pending) IN
     Dump(p, NextUpdate([proc[p] EXCEPT !.writes = @ + 1]),
          Applied(acked, u[1], u[2]))
  /\ UNCHANGED env

\* run_all_operations never returns after its last step
run_all_operations_hangs(p) ==
  /\ proc[p].pc = "finish"
  /\ UNCHANGED vars

\* the last step of run_all_operations succeeded: `return True`
run_all_operations_done(p) ==
  /\ proc[p].pc = "finish"
  /\ Set(p, Return(proc[p], "True"))
  /\ UNCHANGED <<file, env, hist>>


(***************************************************************************)
(* DevboxOperations (task1b_devbox_operations.py)                          *)
(***************************************************************************)
DevboxOperations_init(p) ==
  /\ proc[p].driver = "DevboxOperations" /\ proc[p].pc = "init"
  /\ LET l == _load_config(file) IN
     Set(p, IF ~l.ok THEN Fail(proc[p], l.error)
            ELSE IF ApiKeyAbsent(l.config)
            THEN Fail(Loaded(proc[p], l.config), "ValueError")
            ELSE [Loaded(proc[p], l.config) EXCEPT !.pc = "resolve"])
  /\ UNCHANGED <<file, env, hist>>

\* run_all_operations, step 0, when the devbox id is already known
resolve_known(p) ==
  /\ proc[p].driver = "DevboxOperations" /\ proc[p].pc = "resolve"
  /\ ~DevboxIdUnknown(proc[p].devbox_id)
  /\ Set(p, [proc[p] EXCEPT !.pc = "copy_resources"])
  /\ UNCHANGED <<file, env, hist>>

\* the last devbox of the list whose name is devbox_name, or Raised
RECURSIVE LastMatch(_, _)
LastMatch(devboxes, devbox_name) ==
  IF devboxes = <<>> THEN Raised
  ELSE IF devboxes[Len(devboxes)].name = devbox_name
       THEN devboxes[Len(devboxes)]
       ELSE LastMatch(SubSeq(devboxes, 1, Len(devboxes) - 1), devbox_name)

\* the first devbox of the list whose name is devbox_name, or Raised
RECURSIVE FirstMatch(_, _)
FirstMatch(devboxes, devbox_name) ==
  IF devboxes = <<>> THEN Raised
  ELSE IF Head(devboxes).name = devbox_name THEN Head(devboxes)
  ELSE FirstMatch(Tail(devboxes), devbox_name)

ListOutcomes ==
  {[ok |-> FALSE, devboxes |-> <<>>]} \cup [ok : {TRUE}, devboxes : Listings]

\* run_all_operations, step 0: list_devboxes
list_devboxes(p) ==
  /\ proc[p].driver = "DevboxOperations" /\ proc[p].pc = "resolve"
  /\ DevboxIdUnknown(proc[p].devbox_id)
  /\ \E l \in ListOutcomes :
       LET m == FirstMatch(l.devboxes, proc[p].devbox_name)
           r == [Log(proc[p], "list_devboxes", "devboxes.list", NoneVal, "",
                     IF l.ok /\ ~m.ok THEN Plain(TRUE) ELSE m)
                   EXCEPT !.devboxes = l.devboxes] IN
       Set(p, IF m.ok
              THEN Persist([r EXCEPT !.devbox_id = m.id],
                           << <<KeyDevboxId, m.id>> >>, "copy_resources")
              ELSE StepResult(r, FALSE, "copy_resources"))
  /\ UNCHANGED <<file, env, hist>>

\* copy_resources_to_devbox returning True with files left to upload
AfterUploadReturn(r, todo) == [r EXCEPT !.todo = todo, !.pc = "edit_me_txt"]

\* where copy_resources_to_devbox goes once `todo` is what is left to upload
AfterUpload(r, todo) ==
  [r EXCEPT !.todo = todo,
            !.pc = IF todo = {} THEN "edit_me_txt" ELSE "copy_loop"]

\* copy_resources_to_devbox: os.path.exists and os.listdir
copy_resources_to_devbox(p) ==
  /\ proc[p].driver = "DevboxOperations" /\ proc[p].pc = "copy_resources"
  /\ Set(p, IF resources = NoDir
            THEN StepResult(proc[p], FALSE, "copy_loop")
            ELSE AfterUpload(proc[p], resources))
  /\ UNCHANGED <<file, env, hist>>

\* copy_resources_to_devbox: one iteration of the upload loop
copy_upload(p) ==
  /\ proc[p].driver = "DevboxOperations" /\ proc[p].pc = "copy_loop"
  /\ \E filename \in proc[p].todo, ok \in BOOLEAN :
       LET r == Log(proc[p], "copy_resources_to_devbox", "devboxes.write_file",
                    proc[p].devbox_id, filename, Plain(ok)) IN
       Set(p, IF ok
              THEN AfterUpload(r, proc[p].todo \ {filename})
              ELSE StepResult(r, FALSE, "copy_loop"))
  /\ UNCHANGED <<file, env, hist>>

\* edit_me_txt: reads resources/me.txt, then writes it to the devbox
edit_me_txt(p) ==
  /\ proc[p].driver = "DevboxOperations" /\ proc[p].pc = "edit_me_txt"
  /\ IF "me.txt" \notin resources
     THEN Set(p, StepResult(proc[p], FALSE, "execute_test_script"))
     ELSE \E ok \in BOOLEAN :
            Set(p, StepResult(Log(proc[p], "edit_me_txt", "devboxes.write_file",
                                  proc[p].devbox_id, "me.txt", Plain(ok)),
                              ok, "execute_test_script"))
  /\ UNCHANGED <<file, env, hist>>

\* the devbox id read from answers.json again before the command is run
execute_test_script_reloaded(p) ==
  /\ proc[p].driver = "DevboxOperations" /\ proc[p].pc = "execute_test_script"
  /\ \E ok \in BOOLEAN :
       Set(p, StepResult(Log(proc[p], "execute_test_script",
                             "devboxes.execute_command",
                             DictGet(_load_config(file).config, KeyDevboxId),
                             "python3 /workspace/resources/test.py", Plain(ok)),
                         ok, "finish"))
  /\ UNCHANGED <<file, env, hist>>

\* execute_test_script("test.py")
execute_test_script(p) ==
  /\ proc[p].driver = "DevboxOperations" /\ proc[p].pc = "execute_test_script"
  /\ \E ok \in BOOLEAN :
       Set(p, StepResult(Log(proc[p], "execute_test_script",
                             "devboxes.execute_command", proc[p].devbox_id,
                             "python3 /workspace/resources/test.py", Plain(ok)),
                         ok, "finish"))
  /\ UNCHANGED <<file, env, hist>>

(***************************************************************************)
(* SnapshotCreator (task1c_create_snapshot.py)                             *)
(***************************************************************************)
SnapshotCreator_init(p) ==
  /\ proc[p].driver = "SnapshotCreator" /\ proc[p].pc = "init"
  /\ LET l == _load_config(file) IN
     Set(p, IF ~l.ok THEN Fail(proc[p], l.error)
            ELSE IF ApiKeyAbsent(l.config)
                    \/ DevboxIdUnknown(DictGet(l.config, KeyDevboxId))
            THEN Fail(Loaded(proc[p], l.config), "ValueError")
            ELSE [Loaded(proc[p], l.config) EXCEPT !.pc = "create_snapshot"])
  /\ UNCHANGED <<file, env, hist>>

create_snapshot(p) ==
  /\ proc[p].driver = "SnapshotCreator" /\ proc[p].pc = "create_snapshot"
  /\ \E out \in Outcomes :
       LET r == Log(proc[p], "create_snapshot", "devboxes.create_snapshot",
                    proc[p].devbox_id, "snapshot-after-operations", out) IN
       Set(p, AfterCall([r EXCEPT !.snapshot = out], out,
                           << <<KeySnapshotId, out.id>> >>,
                           "finish"))
  /\ UNCHANGED <<file, env, hist>>

(***************************************************************************)
(* BlueprintCreator (task2_create_blueprint.py)                            *)
(***************************************************************************)
BlueprintCreator_init(p) ==
  /\ proc[p].driver = "BlueprintCreator" /\ proc[p].pc = "init"
  /\ LET l == _load_config(file) IN
     Set(p, IF ~l.ok THEN Fail(proc[p], l.error)
            ELSE IF ApiKeyAbsent(l.config)
            THEN Fail([proc[p] EXCEPT !.config = l.config], "ValueError")
            ELSE [proc[p] EXCEPT !.config = l.config,
                                 !.api_key = DictGet(l.config, KeyApi),
                                 !.pc = "create_blueprint"])
  /\ UNCHANGED <<file, env, hist>>

create_blueprint(p) ==
  /\ proc[p].driver = "BlueprintCreator" /\ proc[p].pc = "create_blueprint"
  /\ \E out \in Outcomes :
       LET r == Log(proc[p], "create_blueprint", "blueprints.create",
                    NoneVal, "cowsay-blueprint", out) IN
       Set(p, AfterCall([r EXCEPT !.blueprint = out], out,
                           << <<KeyBlueprintName, out.name>>,
                              <<KeyBlueprintId, out.id>> >>,
                           "boot_devbox_from_blueprint"))
  /\ UNCHANGED <<file, env, hist>>

boot_devbox_from_blueprint(p) ==
  /\ proc[p].driver = "BlueprintCreator"
  /\ proc[p].pc = "boot_devbox_from_blueprint"
  /\ \E out \in Outcomes :
       LET r == Log(proc[p], "boot_devbox_from_blueprint", "devboxes.create",
                    proc[p].blueprint.id, "cowsay-test-devbox", out) IN
       Set(p, AfterCall([r EXCEPT !.devbox = out], out,
                           << <<KeyBpDevboxName, out.name>>,
                              <<KeyBpDevboxId, out.id>> >>,
                           "test_cowsay"))
  /\ UNCHANGED <<file, env, hist>>

test_cowsay(p) ==
  /\ proc[p].driver = "BlueprintCreator" /\ proc[p].pc = "test_cowsay"
  /\ \E ok \in BOOLEAN :
       Set(p, StepResult(Log(proc[p], "test_cowsay", "devboxes.execute_command",
                             proc[p].devbox.id, "cowsay", Plain(ok)),
                         ok, "finish"))
  /\ UNCHANGED <<file, env, hist>>

(***************************************************************************)
(* ScenarioCreator (task3_custom_scenario.py).  run_all_operations calls   *)
(* create_custom_scenario and create_scenario_run and then returns True;   *)
(* copy_resources_to_devbox, execute_test_script and                       *)
(* score_and_complete_scenario are defined but never called.               *)
(***************************************************************************)
ScenarioCreator_init(p) ==
  /\ proc[p].driver = "ScenarioCreator" /\ proc[p].pc = "init"
  /\ LET l == _load_config(file) IN
     Set(p, IF ~l.ok THEN Fail(proc[p], l.error)
            ELSE IF ApiKeyAbsent(l.config)
            THEN Fail([proc[p] EXCEPT !.config = l.config], "ValueError")
            ELSE [proc[p] EXCEPT !.config = l.config,
                                 !.api_key = DictGet(l.config, KeyApi),
                                 !.pc = "create_custom_scenario"])
  /\ UNCHANGED <<file, env, hist>>

\* the scenario returned by scenarios.create is not kept
create_custom_scenario_dropped(p) ==
  /\ proc[p].driver = "ScenarioCreator" /\ proc[p].pc = "create_custom_scenario"
  /\ \E out \in Outcomes :
       Set(p, StepResult(Log(proc[p], "create_custom_scenario",
                             "scenarios.create", NoneVal,
                             "resources-checker-scenario", out),
                         out.ok, "create_scenario_run"))
  /\ UNCHANGED <<file, env, hist>>

\* run_all_operations, step 1: scenario = self.create_custom_scenario()
create_custom_scenario(p) ==
  /\ proc[p].driver = "ScenarioCreator" /\ proc[p].pc = "create_custom_scenario"
  /\ \E out \in Outcomes :
       LET r == Log(proc[p], "create_custom_scenario", "scenarios.create",
                    NoneVal, "resources-checker-scenario", out) IN
       Set(p, StepResult([r EXCEPT !.scenario = out], out.ok,
                         "create_scenario_run"))
  /\ UNCHANGED <<file, env, hist>>

create_scenario_run(p) ==
  /\ proc[p].driver = "ScenarioCreator" /\ proc[p].pc = "create_scenario_run"
  /\ \E out \in Outcomes :
       LET r == Log(proc[p], "create_scenario_run", "scenario_runs.create",
                    proc[p].scenario.id, "", out) IN
       Set(p, AfterCall([r EXCEPT !.scenario_run = out], out,
                           << <<KeyScenarioRunId, out.id>> >>,
                           "finish"))
  /\ UNCHANGED <<file, env, hist>>

(***************************************************************************)
(* Specifications.  Spec: the drivers are run one after another, as the    *)
(* scripts are meant to be used.  SpecConc: two driver processes run       *)
(* against the same answers.json at the same time.                         *)
(***************************************************************************)
Init ==
  /\ file \in InitFiles
  /\ resources \in InitResources
  /\ proc = [p \in Procs |-> IdleProc]
  /\ runs = 0
  /\ faults = 0
  /\ acked = IF file # Missing /\ json_load(file).ok THEN json_load(file).val ELSE <<>>
  /\ raced = FALSE

Step(p) ==
  \/ DevboxManager_init(p)
  \/ create_devbox(p)
  \/ update_answers_json_read(p)
  \/ update_answers_json_open(p)
  \/ update_answers_json_dump(p)
  \/ DevboxOperations_init(p)
  \/ resolve_known(p)
  \/ list_devboxes(p)
  \/ copy_resources_to_devbox(p)
  \/ copy_upload(p)
  \/ edit_me_txt(p)
  \/ execute_test_script(p)
  \/ SnapshotCreator_init(p)
  \/ create_snapshot(p)
  \/ BlueprintCreator_init(p)
  \/ create_blueprint(p)
  \/ boot_devbox_from_blueprint(p)
  \/ test_cowsay(p)
  \/ ScenarioCreator_init(p)
  \/ create_custom_scenario(p)
  \/ create_scenario_run(p)
  \/ _update_answers_json_read(p)
  \/ _update_answers_json_open(p)
  \/ _update_answers_json_dump(p)
  \/ run_all_operations_done(p)
  \/ main_returns(p)

Next == (\E d \in Drivers : Start(1, d)) \/ Step(1)

Spec == Init /\ [][Next]_vars

\* the same, where opening answers.json for writing may raise
InitFault ==
  /\ file \in InitFiles
  /\ resources \in InitResources
  /\ proc = [p \in Procs |-> IdleProc]
  /\ runs = 0
  /\ faults = MaxFaults
  /\ acked = IF file # Missing /\ json_load(file).ok THEN json_load(file).val ELSE <<>>
  /\ raced = FALSE

SpecFault == InitFault /\ [][Next]_vars

\* two processes, each started once, over a well-formed answers.json
ConcFiles == {json_dump(d) : d \in {e \in InitDocs : DictHas(e, KeyDevboxName)}}

InitConc ==
  /\ file \in ConcFiles
  /\ resources = {"me.txt", "test.py"}
  /\ proc = [p \in Procs |-> IdleProc]
  /\ runs = 0
  /\ faults = 0
  /\ acked = json_load(file).val
  /\ raced = FALSE

ConcStart(p, d) == proc[p].pc = "idle" /\ Start(p, d)

\* the race in question: process 1 runs task1a while process 2 runs task2
ConcDriver(p) == IF p = 1 THEN "DevboxManager" ELSE "BlueprintCreator"

ConcStep(p) ==
  \/ DevboxManager_init(p)
  \/ create_devbox(p)
  \/ update_answers_json_read(p)
  \/ update_answers_json_open(p)
  \/ update_answers_json_dump(p)
  \/ BlueprintCreator_init(p)
  \/ create_blueprint(p)
  \/ boot_devbox_from_blueprint(p)
  \/ test_cowsay(p)
  \/ _update_answers_json_read(p)
  \/ _update_answers_json_open(p)
  \/ _update_answers_json_dump(p)
  \/ run_all_operations_done(p)
  \/ main_returns(p)

NextConc ==
  \E p \in Procs : ConcStart(p, ConcDriver(p)) \/ ConcStep(p)

SpecConc == InitConc /\ [][NextConc]_vars


(***************************************************************************)
(* The accessor on its own: a flat str -> str mapping is written with      *)
(* json.dump(data, f, indent=2) and read back with _load_config.           *)
(***************************************************************************)
RTStrings == {<<>>, Str("a"), Str(Q), Str(BS), <<BS, Q>>, <<"a", Q, "b">>}

\* bound on the number of keys of the mapping written
MaxKeys == 2

RTDicts ==
  UNION {{d \in [1..n -> RTStrings \X RTStrings] :
            \A i, j \in 1..n : i # j => d[i][1] # d[j][1]} : n \in 0..MaxKeys}

InitRT ==
  /\ file = Missing
  /\ resources = NoDir
  /\ proc \in {[p \in Procs |->
                 IF p = 1 THEN [IdleProc EXCEPT !.pc = "rt_write", !.data = d]
                 ELSE IdleProc] : d \in RTDicts}
  /\ runs = 0
  /\ faults = 0
  /\ acked = <<>>
  /\ raced = FALSE

\* with open("answers.json", "w") as f: json.dump(data, f, indent=2)
RTWrite ==
  /\ proc[1].pc = "rt_write"
  /\ file' = json_dump(proc[1].data)
  /\ Set(1, [proc[1] EXCEPT !.pc = "rt_load"])
  /\ UNCHANGED <<env, hist>>

\* self.config = self._load_config()
RTLoad ==
  /\ proc[1].pc = "rt_load"
  /\ LET l == _load_config(file) IN
     Set(1, IF l.ok THEN [proc[1] EXCEPT !.config = l.config, !.pc = "rt_done"]
            ELSE Exit(proc[1], 1))
  /\ UNCHANGED <<file, env, hist>>

NextRT == RTWrite \/ RTLoad

SpecRT == InitRT /\ [][NextRT]_vars


(***************************************************************************)
(* Properties                                                              *)
(***************************************************************************)
\* answers.json as a document, when it is one
Readable == file # Missing /\ json_load(file).ok
Doc == json_load(file).val

Halted(r) == r.pc \in {"returned", "exited"}

\* C1: in every driver, a remote call that raises is the last remote call of
\* the run: the driver has halted (it is returning False to main or has
\* exited) and no call follows the failed one, not even a retry of it.
C1_HaltOnRaise ==
  \A p \in Procs :
    \A i \in 1..Len(proc[p].calls) :
      ~proc[p].calls[i].out.ok =>
        i = Len(proc[p].calls) /\ Halted(proc[p])

\* the first upload of Operate raises: the edit and execute calls are not made
C1_Witness ==
  \E p \in Procs :
    /\ proc[p].driver = "DevboxOperations" /\ proc[p].pc = "exited"
    /\ Len(proc[p].calls) = 1
    /\ proc[p].calls[1].op = "devboxes.write_file"
    /\ ~proc[p].calls[1].out.ok

\* C2: a driver started on a config document without `api-key` (or with an
\* empty one) fails in its initialization: the process exits with code 1,
\* has issued no remote call, and the step leaves answers.json as it was.
C2_NoApiKeyNoCall ==
  [][\A p \in Procs :
       (proc[p].pc = "init" /\ proc'[p] # proc[p]
        /\ Readable /\ DictGet(Doc, KeyApi) \in {NoneVal, <<>>})
       => /\ proc'[p].pc = "exited" /\ proc'[p].exit_code = 1
          /\ proc'[p].calls = <<>> /\ proc'[p].writes = 0
          /\ file' = file]_vars

C2_Witness ==
  \E p \in Procs :
    /\ proc[p].driver = "ScenarioCreator" /\ proc[p].pc = "exited"
    /\ proc[p].exit_code = 1 /\ proc[p].calls = <<>>
    /\ Readable /\ DictGet(Doc, KeyApi) \in {NoneVal, <<>>}

\* C3: when a driver's process has ended, its exit code is 0 if the workflow
\* reached Done and 1 if it ended in Failed (a step reported a failure:
\* run_all_operations returned False, or an error reached main).
C3_ExitCodeTellsFailure ==
  \A p \in Procs :
    proc[p].pc = "exited" =>
      /\ proc[p].ret = "True" => proc[p].exit_code = 0
      /\ proc[p].ret = "False" => proc[p].exit_code = 1

\* C4: Provision, from a config with `api-key`: once create-and-await has
\* returned (id, name) and the process has ended, answers.json was rewritten
\* exactly once, `devbox-id` is the returned id, `devbox-name` the returned
\* name, and the exit code is 0.
C4_ProvisionRecords ==
  \A p \in Procs :
    (proc[p].driver = "DevboxManager" /\ proc[p].pc = "exited"
     /\ proc[p].devbox_info.ok)
    => /\ proc[p].writes = 1
       /\ Readable
       /\ DictGet(Doc, KeyDevboxId) = proc[p].devbox_info.id
       /\ DictGet(Doc, KeyDevboxName) = proc[p].devbox_info.name
       /\ proc[p].exit_code = 0

\* the scenario of the spec: {"api-key": "k"} and a stub returning d2 / x
C4_Witness ==
  \E p \in Procs :
    /\ proc[p].driver = "DevboxManager" /\ proc[p].pc = "exited"
    /\ proc[p].config = <<>> /\ proc[p].devbox_info = Obj("d2", Str("x"))
    /\ DictEq(Doc, << <<KeyApi, Str("k")>>, <<KeyDevboxName, Str("x")>>,
                      <<KeyDevboxId, Str("d2")>> >>)
    /\ proc[p].exit_code = 0

\* C5: Operate, when the config gave no usable `devbox-id` and the list call
\* returned a sandbox named as the configured `devbox-name`: every upload and
\* execute call of the run targets that sandbox's id, and from the first
\* upload call on answers.json holds that id under `devbox-id`.
C5_ResolveThenUpload ==
  \A p \in Procs :
    (/\ proc[p].driver = "DevboxOperations"
     /\ Len(proc[p].calls) >= 1
     /\ proc[p].calls[1].op = "devboxes.list"
     /\ proc[p].calls[1].out.ok
     /\ proc[p].calls[1].out.id # NoneVal)
    => /\ \A i \in 2..Len(proc[p].calls) :
            proc[p].calls[i].target = proc[p].calls[1].out.id
       /\ Len(proc[p].calls) >= 2 =>
            Readable /\ DictGet(Doc, KeyDevboxId) = proc[p].calls[1].out.id

\* a run that resolved the id from the list and went through to the execute call
C5_Witness ==
  \E p \in Procs :
    /\ proc[p].driver = "DevboxOperations" /\ proc[p].pc = "exited"
    /\ DevboxIdUnknown(DictGet(proc[p].config, KeyDevboxId))
    /\ Len(proc[p].calls) = 5
    /\ proc[p].calls[1].op = "devboxes.list"
    /\ proc[p].calls[1].out.id = Str("d2")
    /\ proc[p].calls[5].op = "devboxes.execute_command"
    /\ proc[p].calls[5].target = Str("d2")
    /\ DictGet(Doc, KeyDevboxId) = Str("d2")


\* C6: a Scenario Definition run that reports Done has issued, in this
\* order: scenarios.create, scenario_runs.create, the uploads of the resource
\* files, the run of the verification script, and last, exactly once,
\* scenario_runs.complete.
C6_ScenarioRunCompleted ==
  \A p \in Procs :
    (proc[p].driver = "ScenarioCreator" /\ proc[p].pc = "exited"
     /\ proc[p].ret = "True")
    => LET c == proc[p].calls
           n == Len(c) IN
       /\ n >= 5
       /\ c[1].op = "scenarios.create"
       /\ c[2].op = "scenario_runs.create"
       /\ \A i \in 3..(n - 2) : c[i].op = "devboxes.write_file"
       /\ c[n - 1].op = "devboxes.execute_command"
       /\ c[n].op = "scenario_runs.complete"
       /\ Cardinality({i \in 1..n : c[i].op = "scenario_runs.complete"}) = 1

\* C7: in every driver, once an update of answers.json has raised, the run
\* is Failed: the process has exited with code 1, or run_all_operations is
\* returning False; it does not go on to its next step.
C7_PersistErrorFails ==
  \A p \in Procs :
    proc[p].persist_err =>
      \/ proc[p].pc = "exited" /\ proc[p].exit_code = 1
      \/ Halted(proc[p]) /\ proc[p].ret = "False"

\* C8: two drivers running at the same time over one answers.json can lose an
\* update (the witness: both processes have ended, every update reported
\* success, and a key one of them wrote is not in the file), and an update
\* is lost only that way: whenever the file, being a complete document,
\* differs from the updates reported done, some process wrote back a document
\* it had read before another process's write.
C8_LostOnlyByRace ==
  (Readable /\ ~DictEq(Doc, acked)) => raced

C8_Witness ==
  /\ \A p \in Procs : proc[p].pc = "exited" /\ ~proc[p].persist_err
                      /\ proc[p].exit_code = 0
  /\ proc[1].writes = 1 /\ proc[2].writes = 4
  /\ Readable
  /\ DictHas(Doc, KeyBlueprintId) /\ ~DictHas(Doc, KeyBlueprintName)

\* C9: in sequential runs, whenever answers.json is a complete document it
\* is the initial document with, for each update done so far, the update's
\* key set to the update's value and nothing else changed: every key and
\* value the update does not name is kept, and no key is ever removed.
C9_UpdateKeepsOtherKeys ==
  Readable => DictEq(Doc, acked)

\* a second Template+Verify run has overwritten blueprint-id and kept the rest
C9_Witness ==
  \E p \in Procs :
    /\ proc[p].driver = "BlueprintCreator" /\ proc[p].writes = 4
    /\ Readable
    /\ DictGet(proc[p].config, KeyBlueprintId) = Str("d1")
    /\ DictGet(Doc, KeyBlueprintId) = Str("d2")
    /\ DictGet(Doc, KeyApi) = Str("k")
    /\ DictGet(Doc, KeyDevboxId) = Placeholder

\* C10: a flat str -> str mapping written to answers.json and loaded again
\* is loaded without error and equals, as a mapping, the one written.
C10_RoundTrip ==
  proc[1].pc \in {"rt_done", "exited"} =>
    /\ proc[1].pc = "rt_done"
    /\ DictEq(proc[1].config, proc[1].data)

\* a mapping whose key and value hold a quote and a backslash
C10_Witness ==
  /\ proc[1].pc = "rt_done"
  /\ proc[1].data = << << <<BS, Q>>, <<"a", Q, "b">> >>, <<Str(BS), Str(Q)>> >>
  /\ proc[1].config = proc[1].data

\* C11: every driver started while answers.json is absent or is not
\* parseable JSON fails at its load step, with the missing-file condition in
\* the first case and the malformed-JSON condition in the second: the process
\* exits with code 1, has issued no remote call and has neither created nor
\* written answers.json.
C11_LoadFails ==
  [][\A p \in Procs :
       (/\ proc[p].pc = "init"
        /\ proc'[p] # proc[p]
        /\ (file = Missing \/ ~json_load(file).ok)) =>
         /\ proc'[p].pc = "exited"
         /\ proc'[p].exit_code = 1
         /\ proc'[p].error = IF file = Missing THEN "FileNotFoundError"
                             ELSE "JSONDecodeError"
         /\ proc'[p].calls = <<>>
         /\ proc'[p].writes = 0
         /\ file' = file]_vars

C11_Witness ==
  \E p \in Procs :
    /\ file = Missing
    /\ proc[p].driver = "SnapshotCreator"
    /\ proc[p].pc = "exited"
    /\ proc[p].error = "FileNotFoundError"
    /\ proc[p].exit_code = 1

\* C12: a Checkpoint driver whose configuration (read with an api key) has no
\* `devbox-id`, or has the placeholder "YOUR_DEVBOX_ID", fails in its
\* constructor before any remote call; otherwise it issues exactly one
\* create-snapshot call, for the configured devbox id, and once that call has
\* succeeded and been recorded `snapshot-id` in answers.json is the id the
\* call returned.
C12_SnapshotOfConfigured ==
  \A p \in Procs :
    (/\ proc[p].driver = "SnapshotCreator"
     /\ proc[p].pc # "init"
     /\ proc[p].error \notin {"FileNotFoundError", "JSONDecodeError"}
     /\ Truthy(DictGet(proc[p].config, KeyApi))) =>
      LET id == DictGet(proc[p].config, KeyDevboxId) IN
      IF id \in {NoneVal, <<>>, Placeholder}
      THEN /\ proc[p].pc = "exited" /\ proc[p].exit_code = 1
           /\ proc[p].calls = <<>> /\ proc[p].writes = 0
      ELSE /\ Len(proc[p].calls) = IF proc[p].pc = "create_snapshot" THEN 0 ELSE 1
           /\ \A i \in 1..Len(proc[p].calls) :
                /\ proc[p].calls[i].op = "devboxes.create_snapshot"
                /\ proc[p].calls[i].target = id
           /\ (proc[p].pc \in {"finish", "returned", "exited"}
               /\ proc[p].calls[1].out.ok) =>
                /\ Readable
                /\ DictGet(Doc, KeySnapshotId) = proc[p].calls[1].out.id

C12_Witness ==
  \E p \in Procs :
    /\ proc[p].driver = "SnapshotCreator"
    /\ proc[p].pc = "exited"
    /\ proc[p].ret = "True"
    /\ Len(proc[p].calls) = 1
    /\ proc[p].calls[1].target = DictGet(proc[p].config, KeyDevboxId)
    /\ proc[p].calls[1].out.id # proc[p].calls[1].target
    /\ DictGet(Doc, KeySnapshotId) = proc[p].calls[1].out.id

\* C13: the remote calls of a Template+Verify run are, in order,
\* create-blueprint, create-devbox and execute-command, each issued only
\* after the one before it; the devbox is created from the blueprint id
\* that create-blueprint returned and the verification command runs on the
\* devbox id that create-devbox returned; when the run ends with success
\* answers.json holds `blueprint-name` / `blueprint-id` of that blueprint and
\* `devbox-from-blueprint-name` / `devbox-from-blueprint-id` of that devbox.
C13_TemplateThenVerify ==
  \A p \in Procs :
    proc[p].driver = "BlueprintCreator" =>
      LET calls == proc[p].calls
          order == <<"blueprints.create", "devboxes.create",
                     "devboxes.execute_command">> IN
      /\ Len(calls) <= 3
      /\ \A i \in 1..Len(calls) : calls[i].op = order[i]
      /\ Len(calls) >= 2 => calls[2].target = calls[1].out.id
      /\ Len(calls) >= 3 => calls[3].target = calls[2].out.id
      /\ (proc[p].pc \in {"returned", "exited"} /\ proc[p].ret = "True") =>
           /\ Len(calls) = 3
           /\ \A i \in 1..3 : calls[i].out.ok
           /\ Readable
           /\ DictGet(Doc, KeyBlueprintName) = calls[1].out.name
           /\ DictGet(Doc, KeyBlueprintId) = calls[1].out.id
           /\ DictGet(Doc, KeyBpDevboxName) = calls[2].out.name
           /\ DictGet(Doc, KeyBpDevboxId) = calls[2].out.id

C13_Witness ==
  \E p \in Procs :
    /\ proc[p].driver = "BlueprintCreator"
    /\ proc[p].pc = "exited"
    /\ proc[p].ret = "True"
    /\ Len(proc[p].calls) = 3
    /\ proc[p].calls[1].out.id # proc[p].calls[2].out.id
    /\ proc[p].calls[2].target = proc[p].calls[1].out.id
    /\ DictGet(Doc, KeyBlueprintId) = proc[p].calls[1].out.id
    /\ DictGet(Doc, KeyBpDevboxId) = proc[p].calls[2].out.id

\* C14: no driver rolls back.  When a run has stopped on a failed step, what
\* the earlier successful steps of that run recorded is still in answers.json
\* with the same values (after a failed boot step `blueprint-name` and
\* `blueprint-id` remain; after a failed upload the resolved `devbox-id`
\* remains), the file was written once per recorded key and never again, and
\* the failed call, if any, is the last remote call: nothing compensating
\* (delete, shutdown) is issued.
C14_NoRollback ==
  \A p \in Procs :
    (proc[p].pc \in {"returned", "exited"} /\ proc[p].ret = "False") =>
      LET calls == proc[p].calls
          n == Len(calls) IN
      /\ \A i \in 1..n : ~calls[i].out.ok => i = n
      /\ \A i \in 1..n :
           calls[i].op \in {"devboxes.list", "devboxes.write_file",
                            "devboxes.execute_command",
                            "devboxes.create_snapshot", "blueprints.create",
                            "devboxes.create", "scenarios.create",
                            "scenario_runs.create"}
      /\ proc[p].driver = "BlueprintCreator" =>
           /\ proc[p].writes = 2 * Cardinality({i \in 1..n : i < 3 /\ calls[i].out.ok})
           /\ (n >= 2) =>
                /\ Readable
                /\ DictGet(Doc, KeyBlueprintName) = calls[1].out.name
                /\ DictGet(Doc, KeyBlueprintId) = calls[1].out.id
           /\ (n = 3) =>
                /\ DictGet(Doc, KeyBpDevboxName) = calls[2].out.name
                /\ DictGet(Doc, KeyBpDevboxId) = calls[2].out.id
      /\ (/\ proc[p].driver = "DevboxOperations"
          /\ n >= 1
          /\ calls[1].op = "devboxes.list"
          /\ calls[1].out.id # NoneVal) =>
           /\ proc[p].writes = 1
           /\ Readable
           /\ DictGet(Doc, KeyDevboxId) = calls[1].out.id

C14_Witness ==
  \E p \in Procs :
    /\ proc[p].driver = "BlueprintCreator"
    /\ proc[p].pc = "exited"
    /\ proc[p].ret = "False"
    /\ Len(proc[p].calls) = 2
    /\ proc[p].calls[1].out.ok
    /\ ~proc[p].calls[2].out.ok
    /\ DictGet(Doc, KeyBlueprintId) = proc[p].calls[1].out.id
    /\ DictGet(Doc, KeyBlueprintName) = proc[p].calls[1].out.name

\* C15: a re-run never reuses a recorded resource.  Whatever identifiers
\* answers.json held when the run started, a successful run of Provision,
\* Checkpoint, Template+Verify or Scenario Definition has issued its own create
\* call(s) and answers.json holds the identifier(s) those calls returned;
\* Operate is the exception: none of its calls creates a sandbox.
C15_FreshCreateEachRun ==
  \A p \in Procs :
    LET calls == proc[p].calls IN
    /\ (/\ proc[p].driver = "DevboxManager"
        /\ proc[p].pc = "exited" /\ proc[p].exit_code = 0) =>
         /\ Len(calls) = 1
         /\ calls[1].op = "devboxes.create_and_await_running"
         /\ Readable
         /\ DictGet(Doc, KeyDevboxId) = calls[1].out.id
    /\ (/\ proc[p].driver = "SnapshotCreator"
        /\ proc[p].pc = "exited" /\ proc[p].ret = "True") =>
         /\ Len(calls) = 1
         /\ calls[1].op = "devboxes.create_snapshot"
         /\ Readable
         /\ DictGet(Doc, KeySnapshotId) = calls[1].out.id
    /\ (/\ proc[p].driver = "BlueprintCreator"
        /\ proc[p].pc = "exited" /\ proc[p].ret = "True") =>
         /\ Len(calls) = 3
         /\ calls[1].op = "blueprints.create"
         /\ calls[2].op = "devboxes.create"
         /\ Readable
         /\ DictGet(Doc, KeyBlueprintId) = calls[1].out.id
         /\ DictGet(Doc, KeyBpDevboxId) = calls[2].out.id
    /\ (/\ proc[p].driver = "ScenarioCreator"
        /\ proc[p].pc = "exited" /\ proc[p].ret = "True") =>
         /\ Len(calls) = 2
         /\ calls[1].op = "scenarios.create"
         /\ calls[2].op = "scenario_runs.create"
         /\ Readable
         /\ DictGet(Doc, KeyScenarioRunId) = calls[2].out.id
    /\ proc[p].driver = "DevboxOperations" =>
         \A i \in 1..Len(calls) :
           calls[i].op \in {"devboxes.list", "devboxes.write_file",
                            "devboxes.execute_command"}

\* a second Template+Verify run over a document that already records a
\* blueprint: a new blueprint is created and its id replaces the old one
C15_Witness ==
  \E p \in Procs :
    /\ proc[p].driver = "BlueprintCreator"
    /\ proc[p].pc = "exited"
    /\ proc[p].ret = "True"
    /\ DictHas(proc[p].config, KeyBlueprintId)
    /\ DictGet(proc[p].config, KeyBlueprintId) # proc[p].calls[1].out.id
    /\ DictGet(Doc, KeyBlueprintId) = proc[p].calls[1].out.id

\* position of a step of DevboxOperations.run_all_operations
StepRank(step) ==
  CASE step = "list_devboxes" -> 0
    [] step = "copy_resources_to_devbox" -> 1
    [] step = "edit_me_txt" -> 2
    [] step = "execute_test_script" -> 3

\* C16: in an Operate run every write_file that uploads a resource file comes
\* before the write_file that overwrites me.txt, which comes before the single
\* execute-command call; execute-command is issued only if the resolution,
\* the upload of every resource file and the overwrite of me.txt succeeded;
\* and the list call is issued only when the `devbox-id` of the configuration
\* is absent or the placeholder (and then it is the first call).
C16_OperateOrder ==
  \A p \in Procs :
    proc[p].driver = "DevboxOperations" =>
      LET calls == proc[p].calls
          n == Len(calls)
          At(step) == {i \in 1..n : calls[i].step = step} IN
      /\ \A i, j \in 1..n :
           i < j => StepRank(calls[i].step) <= StepRank(calls[j].step)
      /\ \A i \in 1..n :
           calls[i].op = CASE StepRank(calls[i].step) = 0 -> "devboxes.list"
                           [] StepRank(calls[i].step) = 3 -> "devboxes.execute_command"
                           [] OTHER -> "devboxes.write_file"
      /\ Cardinality(At("list_devboxes")) <= 1
      /\ Cardinality(At("edit_me_txt")) <= 1
      /\ Cardinality(At("execute_test_script")) <= 1
      /\ \A i \in At("edit_me_txt") : calls[i].arg = "me.txt"
      /\ \A i \in At("execute_test_script") :
           /\ \A j \in 1..(i - 1) : calls[j].out.ok
           /\ \A j \in At("list_devboxes") : calls[j].out.id = calls[i].target
           /\ resources # NoDir
           /\ {calls[j].arg : j \in At("copy_resources_to_devbox")} = resources
           /\ At("edit_me_txt") # {}
      /\ At("list_devboxes") # {} =>
           DictGet(proc[p].config, KeyDevboxId) \in {NoneVal, <<>>, Placeholder}

C16_Witness ==
  \E p \in Procs :
    /\ proc[p].driver = "DevboxOperations"
    /\ proc[p].pc = "exited"
    /\ proc[p].ret = "True"
    /\ DictGet(proc[p].config, KeyDevboxId) = Placeholder
    /\ [i \in 1..Len(proc[p].calls) |-> proc[p].calls[i].step] =
         <<"list_devboxes", "copy_resources_to_devbox",
           "copy_resources_to_devbox", "edit_me_txt", "execute_test_script">>

\* C17: an Operate run that has to resolve its sandbox.  When the list call
\* raises, or returns no sandbox whose name is the configured `devbox-name`,
\* the driver halts with no write_file and no execute-command call and
\* answers.json is what it was when the run started; when several listed
\* sandboxes have that name the first of them in list order is the one
\* selected, and its id is recorded with exactly one write of answers.json.
C17_ResolveByName ==
  \A p \in Procs :
    (/\ proc[p].driver = "DevboxOperations"
     /\ Len(proc[p].calls) >= 1
     /\ proc[p].calls[1].op = "devboxes.list") =>
      LET devboxes == proc[p].devboxes
          matches == {i \in 1..Len(devboxes) :
                        devboxes[i].name = DictGet(proc[p].config, KeyDevboxName)}
          first == CHOOSE i \in matches : \A j \in matches : i <= j IN
      IF ~proc[p].calls[1].out.ok \/ matches = {}
      THEN /\ proc[p].pc \in {"returned", "exited"}
           /\ proc[p].ret = "False"
           /\ Len(proc[p].calls) = 1
           /\ proc[p].writes = 0
           /\ Readable
           /\ Doc = proc[p].config
      ELSE /\ proc[p].devbox_id = devboxes[first].id
           /\ proc[p].calls[1].out.id = devboxes[first].id
           /\ \A i \in 2..Len(proc[p].calls) :
                proc[p].calls[i].target = devboxes[first].id
           /\ proc[p].writes =
                IF proc[p].pc \in {"upd_read", "upd_open", "upd_dump"}
                THEN 0 ELSE 1
           /\ proc[p].pc \notin {"upd_read", "upd_open", "upd_dump"} =>
                /\ Readable
                /\ DictGet(Doc, KeyDevboxId) = devboxes[first].id

C17_Witness ==
  \E p \in Procs :
    /\ proc[p].driver = "DevboxOperations"
    /\ proc[p].pc = "exited"
    /\ Len(proc[p].devboxes) = 2
    /\ proc[p].devboxes[1].name = proc[p].devbox_name
    /\ proc[p].devboxes[2].name = proc[p].devbox_name
    /\ proc[p].devboxes[1].id # proc[p].devboxes[2].id
    /\ proc[p].devbox_id = proc[p].devboxes[1].id
    /\ proc[p].writes = 1
    /\ Len(proc[p].calls) > 1

\* C18: answers.json is rewritten only after a successful remote operation.
\* In every driver the step whose remote call raises leaves the file as it
\* was, has no update of it left to perform and ends the run; every step that
\* changes the file belongs to a run whose latest remote call succeeded; so a
\* Provision run whose create call failed has not written answers.json.
C18_WriteOnlyAfterSuccess ==
  [][\A p \in Procs :
       LET calls == proc'[p].calls
           n == Len(calls) IN
       /\ (n = Len(proc[p].calls) + 1 /\ ~calls[n].out.ok) =>
            /\ file' = file
            /\ proc'[p].writes = proc[p].writes
            /\ proc'[p].pending = <<>>
            /\ proc'[p].pc \in {"returned", "exited"}
            /\ proc'[p].driver = "DevboxManager" => proc'[p].writes = 0
       /\ (file' # file /\ proc'[p] # proc[p]) =>
            /\ Len(proc[p].calls) >= 1
            /\ proc[p].calls[Len(proc[p].calls)].out.ok]_vars

C18_Witness ==
  \E p \in Procs :
    /\ proc[p].driver = "DevboxManager"
    /\ proc[p].pc = "exited"
    /\ proc[p].exit_code = 1
    /\ Len(proc[p].calls) = 1
    /\ ~proc[p].calls[1].out.ok
    /\ proc[p].writes = 0
    /\ Readable
    /\ Doc = acked

\* C19: in a Scenario Definition run the scenario run is created with the
\* scenario id that the preceding scenario-create call returned; when the run
\* ends with success `ext-scenario-run-id` in answers.json is the id the
\* scenario-run create call returned; when scenario creation fails no
\* scenario-run create call is issued and `ext-scenario-run-id` is not
\* written.
C19_ScenarioRunOfScenario ==
  \A p \in Procs :
    proc[p].driver = "ScenarioCreator" =>
      LET calls == proc[p].calls
          n == Len(calls) IN
      /\ n <= 2
      /\ n >= 1 => calls[1].op = "scenarios.create"
      /\ n = 2 => /\ calls[1].out.ok
                  /\ calls[2].op = "scenario_runs.create"
                  /\ calls[2].target = calls[1].out.id
      /\ (proc[p].pc \in {"returned", "exited"} /\ proc[p].ret = "True") =>
           /\ n = 2
           /\ calls[2].out.ok
           /\ Readable
           /\ DictGet(Doc, KeyScenarioRunId) = calls[2].out.id
      /\ (n >= 1 /\ ~calls[1].out.ok) =>
           /\ n = 1
           /\ proc[p].pc \in {"returned", "exited"}
           /\ proc[p].writes = 0
           /\ Readable
           /\ Doc = proc[p].config

C19_Witness ==
  \E p \in Procs :
    /\ proc[p].driver = "ScenarioCreator"
    /\ proc[p].pc = "exited"
    /\ proc[p].ret = "True"
    /\ Len(proc[p].calls) = 2
    /\ proc[p].calls[2].target = proc[p].calls[1].out.id
    /\ proc[p].calls[2].out.id # proc[p].calls[1].out.id
    /\ DictGet(Doc, KeyScenarioRunId) = proc[p].calls[2].out.id

(***************************************************************************)
(* A user interrupt.  KeyboardInterrupt derives from BaseException, so no  *)
(* `except Exception` of the drivers catches it: it unwinds to main().     *)
(* main() of task1a has `except KeyboardInterrupt: ... sys.exit(1)`; main()*)
(* of task1b, task1c, task2 and task3 has `except Exception` only, so the  *)
(* interpreter ends the process itself: with status 1 after the traceback, *)
(* or killed by SIGINT (status 130 for the shell), by interpreter version. *)
(***************************************************************************)
UnhandledInterruptStatus == {1, 130}

\* how main() of the driver leaves on KeyboardInterrupt
main_interrupted(r) ==
  IF r.driver = "DevboxManager"
  THEN {Exit([r EXCEPT !.error = "Operation cancelled by user"], 1)}
  ELSE {Exit([r EXCEPT !.error = "KeyboardInterrupt"], code) :
          code \in UnhandledInterruptStatus}

\* Ctrl-C while the driver is running
Interrupt(p) ==
  /\ proc[p].pc \notin {"idle", "exited"}
  /\ \E r \in main_interrupted(proc[p]) : Set(p, r)
  /\ UNCHANGED <<file, env, hist>>

NextInt == Next \/ Interrupt(1)

SpecInt == Init /\ [][NextInt]_vars

\* C20: a user interrupt, at whatever point of whatever driver's run it
\* arrives, ends the process with exit code 1 through the handler of the
\* driver's own main(), and the run issues no remote call afterwards.
C20_InterruptExitsOne ==
  [][\A p \in Procs :
       (proc'[p].error \in {"KeyboardInterrupt", "Operation cancelled by user"}
        /\ proc'[p].error # proc[p].error) =>
         /\ proc'[p].pc = "exited"
         /\ proc'[p].calls = proc[p].calls
         /\ proc'[p].exit_code = 1
         /\ proc'[p].error = "Operation cancelled by user"]_vars

(***************************************************************************)
(* Progress.  A started driver is a sequential program: as long as every   *)
(* remote call and every file operation returns or raises, its next step   *)
(* is taken.  One script is run, from any of the initial environments.     *)
(***************************************************************************)
NextLive == (\E d \in Drivers : ConcStart(1, d)) \/ Step(1)

SpecLive == Init /\ [][NextLive]_vars /\ WF_vars(Step(1))

\* C21: provided every remote call and file operation returns or raises,
\* every run of every driver reaches its end (Done or Failed: the process
\* has exited), and the end is absorbing: from the moment run_all_operations
\* has returned or the process has exited, that run issues no remote call
\* and does not write answers.json.
C21_RunsEnd ==
  /\ \A p \in Procs :
       (proc[p].pc \notin {"idle", "exited"}) ~> (proc[p].pc = "exited")
  /\ [][\A p \in Procs :
          (proc[p].pc \in {"returned", "exited"} /\ proc'[p].pc # "init") =>
            /\ proc'[p].pc = "exited"
            /\ proc'[p].calls = proc[p].calls
            /\ proc'[p].writes = proc[p].writes
            /\ proc'[p].ret = proc[p].ret
            /\ file' = file]_vars

C21_Witness ==
  \E p \in Procs :
    /\ proc[p].driver = "DevboxOperations"
    /\ proc[p].pc = "exited"
    /\ proc[p].ret = "False"
    /\ Len(proc[p].calls) >= 2

\* C22: identifier pairing.  Provision stores `devbox-name` and `devbox-id`
\* with a single write of the document: whenever answers.json is a complete
\* document during a Provision run, either the run has not written yet and
\* both keys are as they were, or both are those of the run's create
\* response.  Template+Verify stores `blueprint-name` and `blueprint-id` (and
\* `devbox-from-blueprint-name` / `-id`) with two writes each: after the first
\* write of a pair the name is the new one while the id is still the one the
\* run found, so name and id are those of one response only from the second
\* write on, and in particular at the end of a successful sequential run.
C22_IdentifierPairing ==
  \A p \in Procs :
    LET r == proc[p]
        Old(key) == DictGet(r.config, key) IN
    /\ r.driver = "DevboxManager" =>
         /\ r.writes <= 1
         /\ Readable =>
              IF r.writes = 1
              THEN /\ DictGet(Doc, KeyDevboxName) = r.devbox_info.name
                   /\ DictGet(Doc, KeyDevboxId) = r.devbox_info.id
              ELSE /\ DictGet(Doc, KeyDevboxName) = DictGet(acked, KeyDevboxName)
                   /\ DictGet(Doc, KeyDevboxId) = DictGet(acked, KeyDevboxId)
    /\ (r.driver = "BlueprintCreator" /\ r.pc # "init" /\ Readable) =>
         /\ DictGet(Doc, KeyBlueprintName) =
              IF r.writes >= 1 THEN r.blueprint.name ELSE Old(KeyBlueprintName)
         /\ DictGet(Doc, KeyBlueprintId) =
              IF r.writes >= 2 THEN r.blueprint.id ELSE Old(KeyBlueprintId)
         /\ DictGet(Doc, KeyBpDevboxName) =
              IF r.writes >= 3 THEN r.devbox.name ELSE Old(KeyBpDevboxName)
         /\ DictGet(Doc, KeyBpDevboxId) =
              IF r.writes >= 4 THEN r.devbox.id ELSE Old(KeyBpDevboxId)
         /\ (r.pc \in {"returned", "exited"} /\ r.ret = "True") => r.writes = 4

\* a re-run of Template+Verify between the two writes of the blueprint pair:
\* the name is that of the new blueprint, the id that of the earlier one
C22_Witness ==
  \E p \in Procs :
    /\ proc[p].driver = "BlueprintCreator"
    /\ proc[p].writes = 1
    /\ Readable
    /\ DictHas(proc[p].config, KeyBlueprintId)
    /\ DictGet(Doc, KeyBlueprintName) = proc[p].blueprint.name
    /\ DictGet(Doc, KeyBlueprintName) # DictGet(proc[p].config, KeyBlueprintName)
    /\ DictGet(Doc, KeyBlueprintId) = DictGet(proc[p].config, KeyBlueprintId)
    /\ DictGet(Doc, KeyBlueprintId) # proc[p].blueprint.id

(***************************************************************************)
(* task1b or task1c (process 2) run while task1a (process 1) provisions a  *)
(* new devbox and records it in the same answers.json.                     *)
(***************************************************************************)
OverlapDrivers(p) ==
  IF p = 1 THEN {"DevboxManager"} ELSE {"DevboxOperations", "SnapshotCreator"}

InitOverlap ==
  /\ file \in {json_dump(<< <<KeyApi, Str("k")>>, <<KeyDevboxName, FixedName>>,
                            <<KeyDevboxId, id>> >>) :
                 id \in {Placeholder, Str("d1")}}
  /\ resources = {"me.txt", "test.py"}
  /\ proc = [p \in Procs |-> IdleProc]
  /\ runs = 0
  /\ faults = 0
  /\ acked = json_load(file).val
  /\ raced = FALSE

OverlapStep(p) ==
  \/ DevboxManager_init(p)
  \/ create_devbox(p)
  \/ update_answers_json_read(p)
  \/ update_answers_json_open(p)
  \/ update_answers_json_dump(p)
  \/ DevboxOperations_init(p)
  \/ resolve_known(p)
  \/ list_devboxes(p)
  \/ copy_resources_to_devbox(p)
  \/ copy_upload(p)
  \/ edit_me_txt(p)
  \/ execute_test_script(p)
  \/ SnapshotCreator_init(p)
  \/ create_snapshot(p)
  \/ _update_answers_json_read(p)
  \/ _update_answers_json_open(p)
  \/ _update_answers_json_dump(p)
  \/ run_all_operations_done(p)
  \/ main_returns(p)

NextOverlap ==
  \E p \in Procs :
    (\E d \in OverlapDrivers(p) : ConcStart(p, d)) \/ OverlapStep(p)

SpecOverlap == InitOverlap /\ [][NextOverlap]_vars

\* C23: within one run of the Operate or Checkpoint driver every remote call
\* that takes a devbox id (write_file, execute_command, create_snapshot)
\* carries the same id, the one the driver holds in memory: the `devbox-id`
\* of the configuration it loaded or, when it had to resolve, the id of the
\* sandbox it selected from the list.  What another process writes under
\* `devbox-id` in answers.json during the run changes no call's target.
C23_SameDevboxId ==
  \A p \in Procs :
    proc[p].driver \in {"DevboxOperations", "SnapshotCreator"} =>
      LET calls == proc[p].calls
          held == IF Len(calls) >= 1 /\ calls[1].op = "devboxes.list"
                  THEN calls[1].out.id
                  ELSE DictGet(proc[p].config, KeyDevboxId) IN
      \A i \in 1..Len(calls) :
        calls[i].op \in {"devboxes.write_file", "devboxes.execute_command",
                         "devboxes.create_snapshot"} =>
          /\ calls[i].target = held
          /\ calls[i].target # NoneVal

\* Operate ran to its end on the devbox it loaded while Provision recorded
\* another devbox id in answers.json
C23_Witness ==
  /\ proc[1].driver = "DevboxManager" /\ proc[1].writes = 1
  /\ proc[2].driver = "DevboxOperations"
  /\ proc[2].pc = "exited" /\ proc[2].ret = "True"
  /\ Len(proc[2].calls) = 4
  /\ Readable
  /\ DictGet(Doc, KeyDevboxId) = proc[1].devbox_info.id
  /\ DictGet(proc[2].config, KeyDevboxId) # proc[1].devbox_info.id
  /\ \A i \in 1..4 : proc[2].calls[i].target = DictGet(proc[2].config, KeyDevboxId)

\* the `api-key` of the document held in f
ApiKeyIn(f) == DictGet(json_load(f).val, KeyApi)

\* C24: over sequential driver runs the `api-key` of answers.json is never
\* altered.  No step turns a complete document into one with another
\* `api-key`; a driver that truncates the file to rewrite it holds a document
\* with the `api-key` of the document it erases, keeps holding it, and the
\* document it then writes has that `api-key` (Provision assigns the key, but
\* the value it loaded; the other drivers do not assign it).
C24_ApiKeyKept ==
  [][\A p \in Procs :
       proc'[p] # proc[p] =>
         /\ (file' # file /\ Readable /\ Readable') =>
              ApiKeyIn(file') = ApiKeyIn(file)
         /\ (file' # file /\ Readable /\ ~Readable') =>
              /\ MidUpdate(proc'[p])
              /\ DictGet(proc'[p].data, KeyApi) = ApiKeyIn(file)
         /\ (MidUpdate(proc[p]) /\ MidUpdate(proc'[p])) =>
              DictGet(proc'[p].data, KeyApi) = DictGet(proc[p].data, KeyApi)
         /\ (file' # file /\ ~Readable /\ Readable') =>
              /\ MidUpdate(proc[p])
              /\ ApiKeyIn(file') = DictGet(proc[p].data, KeyApi)]_vars

\* Provision has rewritten the document, the key included, after an earlier
\* run of another driver
C24_Witness ==
  \E p \in Procs :
    /\ runs = 2
    /\ proc[p].driver = "DevboxManager"
    /\ proc[p].pc = "exited"
    /\ proc[p].writes = 1
    /\ Readable
    /\ DictHas(Doc, KeyBlueprintId)
    /\ DictGet(Doc, KeyApi) = proc[p].api_key
    /\ DictGet(Doc, KeyDevboxId) = proc[p].devbox_info.id

====
